---- MODULE Spec2Model ----
(***************************************************************************)
(* Model of src/downloader/downloader.cpp: the project id allocator        *)
(* (Project::idIndex_ and the two Project constructors), the content store *)
(* (Downloader::getContentId over the shared fileHashes_ table) and the    *)
(* per-worker crawl (Downloader::run and what it calls).                   *)
(***************************************************************************)
EXTENDS Integers, Sequences, FiniteSets, TLC

(* ---------------------------------------------------------------------- *)
(* Bounds of the model.                                                    *)
(* ---------------------------------------------------------------------- *)

\* number of threads constructing Project objects
NumCreators == 2

\* largest explicit id handed to Project(url, id)
MaxId == 2

\* number of Project constructions in one behaviour
MaxCreated == 4

Creators == 1..NumCreators

\* ids a caller may pass to Project(url, id); strtol may return a negative
ExplicitIds == -1..MaxId

\* number of Downloader worker threads (Spawn)
NumWorkers == 2

\* number of projects scheduled by FeedProjectsFrom
NumProjects == 2

\* number of projects in the seed file of the single-worker run
NumSeeded == 3

Workers == 1..NumWorkers

\* number of lines of the seed file
MaxLines == 3

(* ---------------------------------------------------------------------- *)
(* The repositories the git layer reports on: what Git::GetBranches,        *)
(* GetCurrentBranch, GetFileInfo, GetFileHistory and GetFileRevision        *)
(* return.  "u2" is a fork of "u1": they share commit c1.                   *)
(* ---------------------------------------------------------------------- *)

\* gitUrl_ of the i-th scheduled project
UrlOf(i) == IF i % 3 = 0 THEN "u1" ELSE IF i % 3 = 1 THEN "u2" ELSE "u3"

\* Git::GetBranches(localPath)
GetBranches(url) ==
    IF url = "u1" THEN {"master", "dev"}
    ELSE IF url = "u3" THEN {"master", "dev", "rel"}
    ELSE {"master"}

\* Git::GetCurrentBranch(localPath) right after the clone
GetCurrentBranch(url) == "master"

\* Git::GetFileInfo(localPath): the files tracked in the checked-out branch,
\* each with the outcome of filePattern_.check(filename, denied)
GetFileInfo(url, branch) ==
    IF url = "u1" /\ branch = "master"
        THEN <<[filename |-> "f1", class |-> "accept"], [filename |-> "f2", class |-> "deny"]>>
    ELSE IF url = "u1" /\ branch = "dev"
        THEN <<[filename |-> "f3", class |-> "ignore"], [filename |-> "f1", class |-> "accept"]>>
    ELSE IF url = "u3"
        THEN <<[filename |-> "f3", class |-> "ignore"]>>
    ELSE <<[filename |-> "f1", class |-> "accept"]>>

\* Git::GetFileHistory(localPath, file): the commits that touched the file
GetFileHistory(url, branch, filename) ==
    IF url = "u1" /\ branch = "master"
        THEN <<[hash |-> "c2", filename |-> filename], [hash |-> "c1", filename |-> filename]>>
    ELSE IF url = "u1"
        THEN <<[hash |-> "c3", filename |-> filename], [hash |-> "c1", filename |-> filename]>>
    ELSE <<[hash |-> "c4", filename |-> filename], [hash |-> "c1", filename |-> filename]>>

\* the bytes Git::GetFileRevision yields for a history entry: c3 restores the
\* bytes of c1, and the fork's c4 carries the bytes of c2
TextOf(fh) ==
    IF fh.hash \in {"c1", "c3"} THEN "A" ELSE "B"

\* Hash::Calculate(text): equal bytes give equal hashes, and distinct bytes are
\* assumed to give distinct hashes
Calculate(text) == <<"hash", text>>

\* Settings::ClosesPathDir(id): id is the last one of its shard directory
DirCapacity == 2

ClosesPathDir(id) == id % DirCapacity = DirCapacity - 1

\* what a caller may find in the result register when getContentId flows off
\* its end without a return statement
UndefinedLongs == {-1}

NoTask == [id |-> -1, url |-> ""]

NoSnapshot == [id |-> -1, commit |-> "", relPath |-> "", contentId |-> -1]

\* nothing visited, failed or reported absent yet
NoLog == [visited |-> <<>>, failed |-> {}, absent |-> {}]

VARIABLES
    idIndex,    \* Project::idIndex_, the atomic id counter
    cpc,        \* per creator thread: position inside a constructor
    cid,        \* per creator thread: the id argument of Project(url, id)
    cold,       \* per creator thread: the local `old` of the retry loop
    ck,         \* per creator thread: idIndex_ when the constructor was entered
    created     \* the Project objects constructed so far, in completion order

allocVars == <<idIndex, cpc, cid, cold, ck, created>>

VARIABLES
    queue,        \* the tasks scheduled and not yet taken by a worker
    wpc,          \* per worker: position inside run(task)
    task,         \* per worker: the Project being processed
    hasDenied,    \* per worker: task.hasDeniedFiles_
    files_,       \* per worker: Downloader::files_
    branches,     \* per worker: the local `branches` of processAllBranches
    current,      \* per worker: the local `current` of processAllBranches
    checkedOut,   \* per worker: the branch the working copy is on
    fidx,         \* per worker: position of the loop over GetFileInfo
    hidx,         \* per worker: position of the loop over GetFileHistory
    fs,           \* per worker: the local FileSnapshot `fs` of processFiles
    text,         \* per worker: the local `text` of processFiles / getContentId
    gid,          \* per worker: the local `id` of getContentId
    cret,         \* per worker: the value getContentId returned
    fileHashes_,  \* Downloader::fileHashes_, shared by all workers
    registered,   \* the hashes in the order they were inserted
    raw,          \* the <id>.raw files under FilesPath()
    dirs,         \* the project workspaces that exist under TempPath()
    nwrites,      \* per hash: how many times a blob with it was written
    puts,         \* the getContentId calls that have returned
    nfetch,       \* per worker: Git::GetFileRevision calls made
    nput,         \* per worker: getContentId calls made
    seenRun,      \* per worker: the (commit, path) pairs stored during this run
    log,          \* per worker: the branches visited, the checkouts that failed
                  \* and the revisions reported absent during this run
    feed          \* FeedProjectsFrom: the seed file, the line counter, the
                  \* errors reported

localVars == <<task, hasDenied, files_, branches, current, checkedOut, fidx, hidx, fs, text, gid, cret>>

storeVars == <<fileHashes_, registered, raw, nwrites, puts>>

crawlVars == <<queue, wpc, localVars, storeVars, dirs, nfetch, nput, seenRun, log>>

vars == <<allocVars, crawlVars, feed>>

(* ---------------------------------------------------------------------- *)
(* Project id allocator.                                                   *)
(* ---------------------------------------------------------------------- *)

\* a constructor may start while the construction budget is not used up
InFlight == Cardinality({t \in Creators : cpc[t] # "idle"})

CanStart == Len(created) + InFlight < MaxCreated

\* idIndex_++ on std::atomic<long>: returns the value before the increment
PostIncrementBad(v) == v + 1

PostIncrement(v) == v

\* the loop condition of Project(url, id): idIndex_ <= id
FloorBelowBad(cur, id) == cur < id

FloorBelow(cur, id) == cur <= id

\* Project(std::string const & gitUrl): id_(idIndex_++), one atomic fetch-add
CreateAuto(t) ==
    /\ cpc[t] = "idle"
    /\ CanStart
    /\ cid' = [cid EXCEPT ![t] = PostIncrement(idIndex)]
    /\ ck' = [ck EXCEPT ![t] = idIndex]
    /\ idIndex' = idIndex + 1
    /\ cpc' = [cpc EXCEPT ![t] = "auto"]
    /\ UNCHANGED <<cold, created, crawlVars, feed>>

\* gitUrl_(gitUrl) and the empty body: the auto-id constructor returns
AutoDone(t) ==
    /\ cpc[t] = "auto"
    /\ created' = Append(created,
                    [kind |-> "auto", id |-> cid[t], k |-> ck[t], by |-> t])
    /\ cpc' = [cpc EXCEPT ![t] = "idle"]
    /\ UNCHANGED <<idIndex, cid, cold, ck, crawlVars, feed>>

\* Project(std::string const & gitUrl, long id): id_(id), then enter the loop
CreateWithId(t) ==
    /\ cpc[t] = "idle"
    /\ CanStart
    /\ \E id \in ExplicitIds :
          /\ cid' = [cid EXCEPT ![t] = id]
          /\ ck' = [ck EXCEPT ![t] = idIndex]
    /\ cpc' = [cpc EXCEPT ![t] = "while"]
    /\ UNCHANGED <<idIndex, cold, created, crawlVars, feed>>

\* the constructor returns: the object exists from here on
Constructed(t) ==
    Append(created, [kind |-> "explicit", id |-> cid[t], k |-> ck[t], by |-> t])

\* while (idIndex_ <= id): one atomic load
LoopTest(t) ==
    /\ cpc[t] = "while"
    /\ IF FloorBelow(idIndex, cid[t])
          THEN /\ cpc' = [cpc EXCEPT ![t] = "load"]
               /\ UNCHANGED created
          ELSE /\ cpc' = [cpc EXCEPT ![t] = "idle"]
               /\ created' = Constructed(t)
    /\ UNCHANGED <<idIndex, cid, cold, ck, crawlVars, feed>>

\* long old = idIndex_: a second atomic load
LoadOld(t) ==
    /\ cpc[t] = "load"
    /\ cold' = [cold EXCEPT ![t] = idIndex]
    /\ cpc' = [cpc EXCEPT ![t] = "cas"]
    /\ UNCHANGED <<idIndex, cid, ck, created, crawlVars, feed>>

\* if (idIndex_.compare_exchange_weak(old, id + 1)) break;  -- success
CasSuccess(t) ==
    /\ cpc[t] = "cas"
    /\ idIndex = cold[t]
    /\ idIndex' = cid[t] + 1
    /\ cpc' = [cpc EXCEPT ![t] = "idle"]
    /\ created' = Constructed(t)
    /\ UNCHANGED <<cid, cold, ck, crawlVars, feed>>

\* compare_exchange_weak fails: the value differs (old is reloaded), or the
\* weak form fails spuriously; either way the loop condition is tested again
CasFail(t) ==
    /\ cpc[t] = "cas"
    /\ cold' = [cold EXCEPT ![t] = idIndex]
    /\ cpc' = [cpc EXCEPT ![t] = "while"]
    /\ UNCHANGED <<idIndex, cid, ck, created, crawlVars, feed>>


(* ---------------------------------------------------------------------- *)
(* Downloader: one worker runs run(task) for one project after the other.  *)
(* Steps that touch shared state (the task queue, fileHashes_, the blob    *)
(* files) are separate actions; fileHashes_ is accessed without a lock     *)
(* (line 372), each container call is taken as one step.                   *)
(* ---------------------------------------------------------------------- *)

\* FileSnapshot::operator==: identity is (commit, relPath)
SnapEqBad(a, b) == a.commit = b.commit /\ a.relPath = b.relPath /\ a.id = b.id

SnapEq(a, b) == a.commit = b.commit /\ a.relPath = b.relPath

\* files_.find(fs) != files_.end()
Found(set, snap) == \E x \in set : SnapEq(x, snap)

\* FileSnapshot(Git::FileHistory const & h)
FileSnapshot(fh) ==
    [id |-> -1, commit |-> fh.hash, relPath |-> fh.filename, contentId |-> -1]

\* the files and the history the loops of processFiles iterate over
FilesOf(w) == GetFileInfo(task[w].url, checkedOut[w])

HistoryOf(w) == GetFileHistory(task[w].url, checkedOut[w], FilesOf(w)[fidx[w]].filename)

\* the worker takes the next scheduled task and calls run(task); the
\* hasDeniedFiles_ member was left uninitialised by the constructor
TakeTask(w) ==
    /\ wpc[w] = "idle"
    /\ queue # <<>>
    /\ task' = [task EXCEPT ![w] = Head(queue)]
    /\ queue' = Tail(queue)
    /\ \E b \in BOOLEAN : hasDenied' = [hasDenied EXCEPT ![w] = b]
    /\ wpc' = [wpc EXCEPT ![w] = "download"]
    /\ seenRun' = [seenRun EXCEPT ![w] = {}]
    /\ log' = [log EXCEPT ![w] = NoLog]
    /\ UNCHANGED <<files_, branches, current, checkedOut, fidx, hidx, fs, text, gid, cret>>
    /\ UNCHANGED <<storeVars, dirs, nfetch, nput, allocVars, feed>>

\* download(p): a stale workspace is removed, then Git::Clone succeeds
DownloadOk(w) ==
    /\ wpc[w] = "download"
    /\ dirs' = dirs \cup {task[w].id}
    /\ checkedOut' = [checkedOut EXCEPT ![w] = GetCurrentBranch(task[w].url)]
    /\ wpc' = [wpc EXCEPT ![w] = "branches"]
    /\ UNCHANGED <<task, hasDenied, files_, branches, current, fidx, hidx, fs, text, gid, cret>>
    /\ UNCHANGED <<queue, storeVars, nfetch, nput, seenRun, allocVars, feed, log>>

\* where the worker is after throw std::runtime_error in download: run(task)
\* is left, the task is over
CloneFailedPcBad == "branches"

CloneFailedPc == "idle"

\* download(p): Git::Clone fails and std::runtime_error leaves run(task); the
\* worker drops the task.  The failed clone may leave a partial workspace.
DownloadFail(w) ==
    /\ wpc[w] = "download"
    /\ \E left \in BOOLEAN :
          dirs' = IF left THEN dirs \cup {task[w].id} ELSE dirs \ {task[w].id}
    /\ wpc' = [wpc EXCEPT ![w] = CloneFailedPc]
    /\ task' = [task EXCEPT ![w] = IF CloneFailedPc = "idle" THEN NoTask ELSE @]
    /\ UNCHANGED <<hasDenied, files_, branches, current, checkedOut, fidx, hidx, fs, text, gid, cret>>
    /\ UNCHANGED <<queue, storeVars, nfetch, nput, seenRun, allocVars, feed, log>>

\* processAllBranches: the branch set and the current branch are read
ReadBranches(w) ==
    /\ wpc[w] = "branches"
    /\ branches' = [branches EXCEPT ![w] = GetBranches(task[w].url)]
    /\ current' = [current EXCEPT ![w] = GetCurrentBranch(task[w].url)]
    /\ wpc' = [wpc EXCEPT ![w] = "visit"]
    /\ UNCHANGED <<task, hasDenied, files_, checkedOut, fidx, hidx, fs, text, gid, cret>>
    /\ UNCHANGED <<queue, storeVars, dirs, nfetch, nput, seenRun, allocVars, feed, log>>

\* top of the outer loop: branches.erase(current), then processFiles(p, current)
\* starts its loop over Git::GetFileInfo
VisitBranch(w) ==
    /\ wpc[w] = "visit"
    /\ branches' = [branches EXCEPT ![w] = @ \ {current[w]}]
    /\ fidx' = [fidx EXCEPT ![w] = 1]
    /\ wpc' = [wpc EXCEPT ![w] = "file"]
    /\ log' = [log EXCEPT ![w].visited = Append(@, [name |-> current[w], on |-> checkedOut[w]])]
    /\ UNCHANGED <<task, hasDenied, files_, current, checkedOut, hidx, fs, text, gid, cret>>
    /\ UNCHANGED <<queue, storeVars, dirs, nfetch, nput, seenRun, allocVars, feed>>

\* one iteration of the loop over the files: filePattern_.check decides
NextFile(w) ==
    /\ wpc[w] = "file"
    /\ IF fidx[w] > Len(FilesOf(w))
          THEN /\ wpc' = [wpc EXCEPT ![w] = "next"]
               /\ fidx' = [fidx EXCEPT ![w] = 0]
               /\ UNCHANGED <<hidx, hasDenied>>
          ELSE LET file == FilesOf(w)[fidx[w]] IN
               IF file.class = "accept"
                  THEN /\ hidx' = [hidx EXCEPT ![w] = 1]
                       /\ wpc' = [wpc EXCEPT ![w] = "hist"]
                       /\ UNCHANGED <<fidx, hasDenied>>
                  ELSE /\ hasDenied' = [hasDenied EXCEPT ![w] = IF file.class = "deny" THEN TRUE ELSE @]
                       /\ fidx' = [fidx EXCEPT ![w] = @ + 1]
                       /\ UNCHANGED <<hidx, wpc>>
    /\ UNCHANGED <<task, files_, branches, current, checkedOut, fs, text, gid, cret>>
    /\ UNCHANGED <<queue, storeVars, dirs, nfetch, nput, seenRun, allocVars, feed, log>>

\* one iteration of the loop over the history: FileSnapshot fs(fh), and the
\* test files_.find(fs) == files_.end()
NextHistory(w) ==
    /\ wpc[w] = "hist"
    /\ IF hidx[w] > Len(HistoryOf(w))
          THEN /\ fidx' = [fidx EXCEPT ![w] = @ + 1]
               /\ hidx' = [hidx EXCEPT ![w] = 0]
               /\ wpc' = [wpc EXCEPT ![w] = "file"]
               /\ UNCHANGED fs
          ELSE LET snap == FileSnapshot(HistoryOf(w)[hidx[w]]) IN
               IF Found(files_[w], snap)
                  THEN /\ hidx' = [hidx EXCEPT ![w] = @ + 1]
                       /\ UNCHANGED <<fidx, wpc, fs>>
                  ELSE /\ fs' = [fs EXCEPT ![w] = snap]
                       /\ wpc' = [wpc EXCEPT ![w] = "fetch"]
                       /\ UNCHANGED <<fidx, hidx>>
    /\ UNCHANGED <<task, hasDenied, files_, branches, current, checkedOut, text, gid, cret>>
    /\ UNCHANGED <<queue, storeVars, dirs, nfetch, nput, seenRun, allocVars, feed, log>>

\* Git::GetFileRevision returns true: fs.id() = files_.size(), and
\* getContentId(text) is entered
FetchOk(w) ==
    /\ wpc[w] = "fetch"
    /\ text' = [text EXCEPT ![w] = TextOf(HistoryOf(w)[hidx[w]])]
    /\ fs' = [fs EXCEPT ![w].id = Cardinality(files_[w])]
    /\ nfetch' = [nfetch EXCEPT ![w] = @ + 1]
    /\ nput' = [nput EXCEPT ![w] = @ + 1]
    /\ wpc' = [wpc EXCEPT ![w] = "gc_find"]
    /\ UNCHANGED <<task, hasDenied, files_, branches, current, checkedOut, fidx, hidx, gid, cret>>
    /\ UNCHANGED <<queue, storeVars, dirs, seenRun, allocVars, feed, log>>

\* files_ after Git::GetFileRevision returned false: the body of the if at
\* line 352 is skipped, nothing is inserted
AfterAbsentBad(set, snap) == set \cup {snap}

AfterAbsent(set, snap) == set

\* Git::GetFileRevision returns false: the file is absent at that commit
FetchAbsent(w) ==
    /\ wpc[w] = "fetch"
    /\ files_' = [files_ EXCEPT ![w] = AfterAbsent(@, fs[w])]
    /\ log' = [log EXCEPT ![w].absent = @ \cup {<<fs[w].commit, fs[w].relPath>>}]
    /\ nfetch' = [nfetch EXCEPT ![w] = @ + 1]
    /\ fs' = [fs EXCEPT ![w] = NoSnapshot]
    /\ hidx' = [hidx EXCEPT ![w] = @ + 1]
    /\ wpc' = [wpc EXCEPT ![w] = "hist"]
    /\ UNCHANGED <<task, hasDenied, branches, current, checkedOut, fidx, text, gid, cret>>
    /\ UNCHANGED <<queue, storeVars, dirs, nput, seenRun, allocVars, feed>>

\* a function extended or overwritten at one point (insert into a map, write
\* of a file)
With(f, x, v) == [y \in DOMAIN f \cup {x} |-> IF y = x THEN v ELSE f[y]]

\* getContentId: Hash::Calculate(text) and fileHashes_.find(h); on a hit the
\* mapped id is returned
GcFind(w) ==
    /\ wpc[w] = "gc_find"
    /\ LET h == Calculate(text[w]) IN
       IF h \in DOMAIN fileHashes_
          THEN /\ cret' = [cret EXCEPT ![w] = fileHashes_[h]]
               /\ puts' = puts \cup {[h |-> h, kind |-> "hit", id |-> fileHashes_[h],
                                      ret |-> fileHashes_[h],
                                      onDisk |-> fileHashes_[h] \in DOMAIN raw,
                                      closes |-> FALSE]}
               /\ wpc' = [wpc EXCEPT ![w] = "insert"]
          ELSE /\ wpc' = [wpc EXCEPT ![w] = "gc_size"]
               /\ UNCHANGED <<cret, puts>>
    /\ UNCHANGED <<task, hasDenied, files_, branches, current, checkedOut, fidx, hidx, fs, text, gid>>
    /\ UNCHANGED <<queue, fileHashes_, registered, raw, nwrites, dirs, nfetch, nput, seenRun, allocVars, feed, log>>

\* id = fileHashes_.size()
GcSize(w) ==
    /\ wpc[w] = "gc_size"
    /\ gid' = [gid EXCEPT ![w] = Cardinality(DOMAIN fileHashes_)]
    /\ wpc' = [wpc EXCEPT ![w] = "gc_insert"]
    /\ UNCHANGED <<task, hasDenied, files_, branches, current, checkedOut, fidx, hidx, fs, text, cret>>
    /\ UNCHANGED <<queue, storeVars, dirs, nfetch, nput, seenRun, allocVars, feed, log>>

\* fileHashes_.insert(pair(h, id)): nothing is inserted when the key is there
GcInsert(w) ==
    /\ wpc[w] = "gc_insert"
    /\ LET h == Calculate(text[w]) IN
       IF h \in DOMAIN fileHashes_
          THEN UNCHANGED <<fileHashes_, registered>>
          ELSE /\ fileHashes_' = With(fileHashes_, h, gid[w])
               /\ registered' = Append(registered, h)
    /\ wpc' = [wpc EXCEPT ![w] = "gc_write"]
    /\ UNCHANGED <<task, hasDenied, files_, branches, current, checkedOut, fidx, hidx, fs, text, gid, cret>>
    /\ UNCHANGED <<queue, raw, nwrites, puts, dirs, nfetch, nput, seenRun, allocVars, feed, log>>

\* the blob is written to <FilesPath><IdToPath(id)>/<id>.raw
GcWrite(w) ==
    /\ wpc[w] = "gc_write"
    /\ LET h == Calculate(text[w]) IN
          nwrites' = With(nwrites, h, IF h \in DOMAIN nwrites THEN nwrites[h] + 1 ELSE 1)
    /\ raw' = With(raw, gid[w], text[w])
    /\ wpc' = [wpc EXCEPT ![w] = "gc_end"]
    /\ UNCHANGED <<task, hasDenied, files_, branches, current, checkedOut, fidx, hidx, fs, text, gid, cret>>
    /\ UNCHANGED <<queue, fileHashes_, registered, puts, dirs, nfetch, nput, seenRun, allocVars, feed, log>>

\* the ofstream cannot be opened or written (disk full, directory missing):
\* out << text and out.close() set the stream's failbit, which is not tested
GcWriteFail(w) ==
    /\ wpc[w] = "gc_write"
    /\ wpc' = [wpc EXCEPT ![w] = "gc_end"]
    /\ UNCHANGED <<task, hasDenied, files_, branches, current, checkedOut, fidx, hidx, fs, text, gid, cret>>
    /\ UNCHANGED <<queue, storeVars, dirs, nfetch, nput, seenRun, allocVars, feed, log>>

\* if (Settings::ClosesPathDir(id)) { std::cout ... } and the closing brace:
\* no return statement, the caller reads an undefined value
GcEnd(w) ==
    /\ wpc[w] = "gc_end"
    /\ \E r \in UndefinedLongs \cup {gid[w]} :
          /\ cret' = [cret EXCEPT ![w] = r]
          /\ puts' = puts \cup {[h |-> Calculate(text[w]), kind |-> "miss", id |-> gid[w],
                                 ret |-> r, onDisk |-> gid[w] \in DOMAIN raw,
                                 closes |-> ClosesPathDir(gid[w])]}
    /\ wpc' = [wpc EXCEPT ![w] = "insert"]
    /\ UNCHANGED <<task, hasDenied, files_, branches, current, checkedOut, fidx, hidx, fs, text, gid>>
    /\ UNCHANGED <<queue, fileHashes_, registered, raw, nwrites, dirs, nfetch, nput, seenRun, allocVars, feed, log>>

\* fs.contentId() = <returned value>; files_.insert(fs); the locals of the
\* iteration go out of scope
InsertSnapshot(w) ==
    /\ wpc[w] = "insert"
    /\ LET snap == [fs[w] EXCEPT !.contentId = cret[w]] IN
          files_' = [files_ EXCEPT ![w] = IF Found(@, snap) THEN @ ELSE @ \cup {snap}]
    /\ fs' = [fs EXCEPT ![w] = NoSnapshot]
    /\ text' = [text EXCEPT ![w] = ""]
    /\ gid' = [gid EXCEPT ![w] = -1]
    /\ cret' = [cret EXCEPT ![w] = -1]
    /\ hidx' = [hidx EXCEPT ![w] = @ + 1]
    /\ wpc' = [wpc EXCEPT ![w] = "hist"]
    /\ seenRun' = [seenRun EXCEPT ![w] = @ \cup {<<fs[w].commit, fs[w].relPath>>}]
    /\ UNCHANGED <<task, hasDenied, branches, current, checkedOut, fidx>>
    /\ UNCHANGED <<queue, storeVars, dirs, nfetch, nput, allocVars, feed, log>>

\* inner loop of processAllBranches: branches.empty(), return
NoMoreBranches(w) ==
    /\ wpc[w] = "next"
    /\ branches[w] = {}
    /\ wpc' = [wpc EXCEPT ![w] = "delete"]
    /\ UNCHANGED <<localVars, queue, storeVars, dirs, nfetch, nput, seenRun, allocVars, feed, log>>

\* branches.erase(branches.begin())
EraseBranchBad(set, b) == set

EraseBranch(set, b) == set \ {b}

\* where the inner loop goes after a failed Git::SetBranch: continue
AfterFailedCheckoutBad == "visit"

AfterFailedCheckout == "next"

\* current = *branches.begin(); erase; Git::SetBranch succeeds
CheckoutOk(w) ==
    /\ wpc[w] = "next"
    /\ \E b \in branches[w] :
          /\ current' = [current EXCEPT ![w] = b]
          /\ branches' = [branches EXCEPT ![w] = EraseBranch(@, b)]
          /\ checkedOut' = [checkedOut EXCEPT ![w] = b]
    /\ wpc' = [wpc EXCEPT ![w] = "visit"]
    /\ UNCHANGED <<task, hasDenied, files_, fidx, hidx, fs, text, gid, cret>>
    /\ UNCHANGED <<queue, storeVars, dirs, nfetch, nput, seenRun, allocVars, feed, log>>

\* current = *branches.begin(); erase; Git::SetBranch fails: Error, continue
CheckoutFail(w) ==
    /\ wpc[w] = "next"
    /\ \E b \in branches[w] :
          /\ current' = [current EXCEPT ![w] = b]
          /\ branches' = [branches EXCEPT ![w] = EraseBranch(@, b)]
          /\ log' = [log EXCEPT ![w].failed = @ \cup {b}]
    /\ wpc' = [wpc EXCEPT ![w] = AfterFailedCheckout]
    /\ UNCHANGED <<task, hasDenied, files_, checkedOut, fidx, hidx, fs, text, gid, cret>>
    /\ UNCHANGED <<queue, storeVars, dirs, nfetch, nput, seenRun, allocVars, feed>>

\* deleteProject(task): the workspace is removed, run returns; files_ is a
\* member of the worker and is left as it is
DeleteProject(w) ==
    /\ wpc[w] = "delete"
    /\ dirs' = dirs \ {task[w].id}
    /\ task' = [task EXCEPT ![w] = NoTask]
    /\ current' = [current EXCEPT ![w] = ""]
    /\ checkedOut' = [checkedOut EXCEPT ![w] = ""]
    /\ wpc' = [wpc EXCEPT ![w] = "idle"]
    /\ UNCHANGED <<hasDenied, files_, branches, fidx, hidx, fs, text, gid, cret>>
    /\ UNCHANGED <<queue, storeVars, nfetch, nput, seenRun, allocVars, feed, log>>

(* ---------------------------------------------------------------------- *)
(* Downloader::FeedProjectsFrom: one iteration of the loop per line of the *)
(* seed file.  A line is the sequence of its fields as CSVParser yields    *)
(* them, a field is the sequence of its characters (a url is kept as one   *)
(* symbol).                                                                *)
(* ---------------------------------------------------------------------- *)

\* the lines a seed file is made of: url | url,1 | url,abc | url,2x | ,,,
SeedLines ==
    { <<<<"u1">>>>,
      <<<<"u2">>, <<"1">>>>,
      <<<<"u1">>, <<"a", "b", "c">>>>,
      <<<<"u2">>, <<"2", "x">>>>,
      <<<<>>, <<>>, <<>>, <<>>>> }

IsDigit(c) == c \in {"0", "1", "2", "3", "4", "5", "6", "7", "8", "9"}

DigitVal(c) ==
    CASE c = "0" -> 0 [] c = "1" -> 1 [] c = "2" -> 2 [] c = "3" -> 3 [] c = "4" -> 4
      [] c = "5" -> 5 [] c = "6" -> 6 [] c = "7" -> 7 [] c = "8" -> 8 [] c = "9" -> 9

\* the digits strtol consumes: it stops at the first character that is none
RECURSIVE StrtolFrom(_, _, _)
StrtolFrom(cs, i, acc) ==
    IF i > Len(cs) \/ ~IsDigit(cs[i]) THEN acc
    ELSE StrtolFrom(cs, i + 1, acc * 10 + DigitVal(cs[i]))

\* std::strtol(x[1].c_str(), c, 10): an optional sign, then the leading digits;
\* 0 when there is no digit; nothing is thrown
Strtol(cs) ==
    IF Len(cs) > 0 /\ cs[1] = "-" THEN 0 - StrtolFrom(cs, 2, 0)
    ELSE StrtolFrom(cs, 1, 0)

\* the url of a one-symbol field, "" for an empty field
UrlField(f) == IF Len(f) > 0 THEN f[1] ELSE ""

\* the loop has a next line to read
FeedHasLine == ~feed.crashed /\ feed.line < Len(feed.file)

FeedFields == feed.file[feed.line + 1]

\* x.size() == 1: Schedule(Project(x[0])), continue
FeedAuto ==
    /\ FeedHasLine
    /\ Len(FeedFields) = 1
    /\ LET p == [id |-> PostIncrement(idIndex), url |-> UrlField(FeedFields[1])] IN
          /\ queue' = Append(queue, p)
          /\ created' = Append(created, [kind |-> "auto", id |-> p.id, k |-> idIndex, by |-> 1])
          /\ feed' = [feed EXCEPT !.line = @ + 1,
                                  !.scheduled = Append(@, [line |-> feed.line + 1, id |-> p.id,
                                                           kind |-> "auto"])]
    /\ idIndex' = idIndex + 1
    /\ UNCHANGED <<cpc, cid, cold, ck, wpc, localVars, storeVars, dirs, nfetch, nput, seenRun, log>>

\* x.size() == 2 and strtol returns: Schedule(Project(x[0], strtol(...))),
\* continue; the constructor raises idIndex_ to id + 1 when it is not above id
FeedWithId ==
    /\ FeedHasLine
    /\ Len(FeedFields) = 2
    /\ LET v == Strtol(FeedFields[2])
           p == [id |-> v, url |-> UrlField(FeedFields[1])] IN
          /\ queue' = Append(queue, p)
          /\ created' = Append(created, [kind |-> "explicit", id |-> v, k |-> idIndex, by |-> 1])
          /\ idIndex' = IF FloorBelow(idIndex, v) THEN v + 1 ELSE idIndex
          /\ feed' = [feed EXCEPT !.line = @ + 1,
                                  !.scheduled = Append(@, [line |-> feed.line + 1, id |-> v,
                                                           kind |-> "explicit"])]
    /\ UNCHANGED <<cpc, cid, cold, ck, wpc, localVars, storeVars, dirs, nfetch, nput, seenRun, log>>

\* x.size() == 2: strtol stores the end position through the uninitialised
\* pointer `char ** c`; the store may hit unmapped memory and end the program
FeedCrash ==
    /\ FeedHasLine
    /\ Len(FeedFields) = 2
    /\ feed' = [feed EXCEPT !.line = @ + 1, !.crashed = TRUE]
    /\ UNCHANGED <<allocVars, crawlVars>>

\* any other number of fields: Error(filename, line ...), next line
FeedError ==
    /\ FeedHasLine
    /\ Len(FeedFields) \notin {1, 2}
    /\ feed' = [feed EXCEPT !.line = @ + 1, !.errors = Append(@, feed.line + 1)]
    /\ UNCHANGED <<allocVars, crawlVars>>


InitAlloc ==
    /\ idIndex = 0
    /\ cpc = [t \in Creators |-> "idle"]
    /\ cid = [t \in Creators |-> 0]
    /\ cold = [t \in Creators |-> 0]
    /\ ck = [t \in Creators |-> 0]
    /\ created = <<>>

\* the workers as Spawn leaves them and the statics as defined at lines 442-444
InitWorkers ==
    /\ wpc = [w \in Workers |-> "idle"]
    /\ task = [w \in Workers |-> NoTask]
    /\ hasDenied = [w \in Workers |-> FALSE]
    /\ files_ = [w \in Workers |-> {}]
    /\ branches = [w \in Workers |-> {}]
    /\ current = [w \in Workers |-> ""]
    /\ checkedOut = [w \in Workers |-> ""]
    /\ fidx = [w \in Workers |-> 0]
    /\ hidx = [w \in Workers |-> 0]
    /\ fs = [w \in Workers |-> NoSnapshot]
    /\ text = [w \in Workers |-> ""]
    /\ gid = [w \in Workers |-> -1]
    /\ cret = [w \in Workers |-> -1]
    /\ fileHashes_ = <<>>
    /\ registered = <<>>
    /\ raw = <<>>
    /\ nwrites = [h \in {} |-> 0]
    /\ puts = {}
    /\ nfetch = [w \in Workers |-> 0]
    /\ nput = [w \in Workers |-> 0]
    /\ seenRun = [w \in Workers |-> {}]
    /\ log = [w \in Workers |-> NoLog]

\* no project has been constructed or scheduled yet
\* FeedProjectsFrom has not been called
NoFeed == [file |-> <<>>, line |-> 0, errors |-> <<>>, scheduled |-> <<>>, crashed |-> FALSE]

InitNoTasks ==
    /\ InitAlloc
    /\ InitWorkers
    /\ queue = <<>>
    /\ dirs = {}
    /\ feed = NoFeed

\* FeedProjectsFrom has read n one-field lines: the projects 0, 1, ... are
\* scheduled, no worker has taken one yet
Seeded(n) ==
    /\ idIndex = n
    /\ cpc = [t \in Creators |-> "idle"]
    /\ cid = [t \in Creators |-> 0]
    /\ cold = [t \in Creators |-> 0]
    /\ ck = [t \in Creators |-> 0]
    /\ created = [i \in 1..n |-> [kind |-> "auto", id |-> i - 1, k |-> i - 1, by |-> 1]]
    /\ InitWorkers
    /\ queue = [i \in 1..n |-> [id |-> i - 1, url |-> UrlOf(i - 1)]]
    /\ dirs = {}
    /\ feed = [file |-> [i \in 1..n |-> <<<<UrlOf(i - 1)>>>>],
               line |-> n,
               errors |-> <<>>,
               scheduled |-> [i \in 1..n |-> [line |-> i, id |-> i - 1, kind |-> "auto"]],
               crashed |-> FALSE]

Init == Seeded(NumProjects)

\* the seed file of the single-worker run
InitSingle == Seeded(NumSeeded)


\* the worker pool: every worker runs the tasks it takes, one after the other
Next ==
    \E w \in Workers :
        \/ TakeTask(w)
        \/ DownloadOk(w)
        \/ DownloadFail(w)
        \/ ReadBranches(w)
        \/ VisitBranch(w)
        \/ NextFile(w)
        \/ NextHistory(w)
        \/ FetchOk(w)
        \/ FetchAbsent(w)
        \/ GcFind(w)
        \/ GcSize(w)
        \/ GcInsert(w)
        \/ GcWrite(w)
        \/ GcEnd(w)
        \/ InsertSnapshot(w)
        \/ NoMoreBranches(w)
        \/ CheckoutOk(w)
        \/ CheckoutFail(w)
        \/ DeleteProject(w)

Spec == Init /\ [][Next]_vars

\* the pool as main() sizes it, Spawn(1): one worker runs all the tasks
NextSingle ==
    \/ TakeTask(1)
    \/ DownloadOk(1)
    \/ DownloadFail(1)
    \/ ReadBranches(1)
    \/ VisitBranch(1)
    \/ NextFile(1)
    \/ NextHistory(1)
    \/ FetchOk(1)
    \/ FetchAbsent(1)
    \/ GcFind(1)
    \/ GcSize(1)
    \/ GcInsert(1)
    \/ GcWrite(1)
    \/ GcEnd(1)
    \/ InsertSnapshot(1)
    \/ NoMoreBranches(1)
    \/ CheckoutOk(1)
    \/ CheckoutFail(1)
    \/ DeleteProject(1)

SpecSingle == InitSingle /\ [][NextSingle]_vars

\* the worker thread is scheduled again and again and every call it makes to
\* git and to the file system returns: a step that is possible is taken
SpecSingleFair == InitSingle /\ [][NextSingle]_vars /\ WF_vars(NextSingle)

\* the one-worker pool on a disk that may refuse the write of a blob
NextDisk ==
    \/ NextSingle
    \/ GcWriteFail(1)

SpecDisk == InitSingle /\ [][NextDisk]_vars

\* a seed file of up to MaxLines lines
RECURSIVE SeedFiles(_)
SeedFiles(n) ==
    IF n = 0 THEN {<<>>}
    ELSE SeedFiles(n - 1) \cup {Append(f, l) : f \in {g \in SeedFiles(n - 1) : Len(g) = n - 1},
                                                l \in SeedLines}

\* main() calls FeedProjectsFrom on a seed file; nothing is scheduled yet
InitFeed ==
    /\ InitAlloc
    /\ InitWorkers
    /\ queue = <<>>
    /\ dirs = {}
    /\ \E f \in SeedFiles(MaxLines) : feed = [NoFeed EXCEPT !.file = f]

\* the loop of FeedProjectsFrom
NextFeed ==
    \/ FeedAuto
    \/ FeedWithId
    \/ FeedCrash
    \/ FeedError

SpecFeed == InitFeed /\ [][NextFeed]_vars

\* any number of threads constructing projects of both kinds
NextAlloc ==
    \E t \in Creators :
        \/ CreateAuto(t)
        \/ AutoDone(t)
        \/ CreateWithId(t)
        \/ LoopTest(t)
        \/ LoadOld(t)
        \/ CasSuccess(t)
        \/ CasFail(t)

SpecAlloc == InitNoTasks /\ [][NextAlloc]_vars

\* one thread constructing projects: the sequential use FeedProjectsFrom makes
NextSeq ==
    \/ CreateAuto(1)
    \/ AutoDone(1)
    \/ CreateWithId(1)
    \/ LoopTest(1)
    \/ LoadOld(1)
    \/ CasSuccess(1)
    \/ CasFail(1)

SpecSeq == InitNoTasks /\ [][NextSeq]_vars

\* N threads constructing auto-id projects only
NextAuto ==
    \E t \in Creators :
        \/ CreateAuto(t)
        \/ AutoDone(t)

\* the allocator at value k: 0 at program start, k > 0 once Project(url, k - 1)
\* has been constructed
InitAuto ==
    \E k \in 0..(MaxId + 1) :
        /\ InitAlloc!2 /\ InitAlloc!3 /\ InitAlloc!4 /\ InitAlloc!5
        /\ InitWorkers /\ queue = <<>> /\ dirs = {} /\ feed = NoFeed
        /\ idIndex = k
        /\ created = IF k = 0 THEN <<>>
                     ELSE <<[kind |-> "explicit", id |-> k - 1, k |-> 0, by |-> 1]>>

SpecAuto == InitAuto /\ [][NextAuto]_vars

(* ---------------------------------------------------------------------- *)
(* Claims about the project id allocator.                                  *)
(* ---------------------------------------------------------------------- *)

Made == 1..Len(created)

\* C5: no two constructed projects carry the same id, and an id assigned by
\* Project(url) after a Project(url, id) has returned is strictly greater than
\* that explicit id.
C5_ProjectIdsUnique ==
    \A i \in Made : \A j \in Made :
        i < j =>
            /\ created[i].id # created[j].id
            /\ (created[i].kind = "explicit" /\ created[j].kind = "auto"
                    => created[j].id > created[i].id)

\* C6: idIndex_ never decreases, whatever the interleaving of constructors.
C6_FloorNeverLowered == [][idIndex' >= idIndex]_vars

\* C7: sequentially, Project(url, m) entered with the allocator at k makes the
\* next Project(url) receive m + 1 when m >= k, and k when m < k.
C7_FloorResumable ==
    \A i \in Made :
        (i + 1 \in Made /\ created[i].kind = "explicit" /\ created[i + 1].kind = "auto")
            => created[i + 1].id =
                  IF created[i].id >= created[i].k THEN created[i].id + 1
                                                   ELSE created[i].k

\* both cases of C7 have happened: a floor raised past k, and a smaller id
\* that left the allocator alone
C7_Witness ==
    /\ \E i \in Made : /\ i + 1 \in Made
                        /\ created[i].kind = "explicit" /\ created[i + 1].kind = "auto"
                        /\ created[i].id > created[i].k
    /\ \E i \in Made : /\ i + 1 \in Made
                        /\ created[i].kind = "explicit" /\ created[i + 1].kind = "auto"
                        /\ created[i].id < created[i].k

\* the auto-id constructions that have taken their id: returned ones and the
\* ones still inside the constructor
AutoTaken ==
    {<<"made", i>> : i \in {j \in Made : created[j].kind = "auto"}}
        \cup {<<"inside", t>> : t \in {u \in Creators : cpc[u] = "auto"}}

AutoIdOf(x) == IF x[1] = "made" THEN created[x[2]].id ELSE cid[x[2]]

\* the allocator value the auto-id constructions started from
AutoBase ==
    IF Len(created) > 0 /\ created[1].kind = "explicit" THEN created[1].id + 1 ELSE 0

\* C8: n concurrent Project(url) constructions starting at allocator value k
\* obtain pairwise distinct ids, exactly k..k+n-1, and leave idIndex_ at k+n.
C8_AutoLinearizable ==
    LET n == Cardinality(AutoTaken) IN
        /\ \A x \in AutoTaken : \A y \in AutoTaken :
                x # y => AutoIdOf(x) # AutoIdOf(y)
        /\ {AutoIdOf(x) : x \in AutoTaken} = AutoBase..(AutoBase + n - 1)
        /\ idIndex = AutoBase + n

\* two threads are inside the auto-id constructor at once, allocator seeded
C8_Witness ==
    /\ AutoBase > 0
    /\ \A t \in Creators : cpc[t] = "auto"
    /\ Cardinality(AutoTaken) >= 3

(* ---------------------------------------------------------------------- *)
(* Claims about the content store.                                         *)
(* ---------------------------------------------------------------------- *)

\* C1: two getContentId calls with byte-identical text obtain the same id (the
\* one found or the one allocated; what is handed back to the caller is C4), and
\* the blob of a content is written exactly once.
C1_GlobalDedup ==
    /\ \A p \in puts : \A q \in puts : p.h = q.h => p.id = q.id
    /\ \A h \in DOMAIN nwrites : nwrites[h] = 1

\* C2: distinct hashes never share a content id, the ids are 0..n-1 in the order
\* of registration, and a blob file holds the bytes of the hash mapped to its id.
C2_ContentIdsDistinct ==
    /\ \A h1 \in DOMAIN fileHashes_ : \A h2 \in DOMAIN fileHashes_ :
          h1 # h2 => fileHashes_[h1] # fileHashes_[h2]
    /\ \A i \in 1..Len(registered) : fileHashes_[registered[i]] = i - 1
    /\ \A h \in DOMAIN fileHashes_ :
          fileHashes_[h] \in DOMAIN raw => Calculate(raw[fileHashes_[h]]) = h

\* C3: a call that found the hash registered got the id of a blob file that was
\* already written.
C3_HitSeesBlob == \A p \in puts : p.kind = "hit" => p.onDisk

\* C4: every getContentId call returns the id the table maps the hash to: the
\* one found, or the one just allocated and inserted.
C4_PutReturnsId ==
    \A p \in puts :
        /\ p.ret = p.id
        /\ p.h \in DOMAIN fileHashes_
        /\ fileHashes_[p.h] = p.id

(* ---------------------------------------------------------------------- *)
(* Claims about the snapshot set.                                          *)
(* ---------------------------------------------------------------------- *)

\* the worker is at a history entry, about to test files_.find(fs)
AtEntry(w) == wpc[w] = "hist" /\ hidx[w] \in 1..Len(HistoryOf(w))

EntryPair(w) == <<HistoryOf(w)[hidx[w]].hash, HistoryOf(w)[hidx[w]].filename>>

\* the worker is inside the iteration for a history entry: at the find test,
\* at the fetch, inside getContentId or at the insertion
InEntry(w) ==
    /\ wpc[w] \in {"hist", "fetch", "gc_find", "gc_size", "gc_insert", "gc_write",
                   "gc_end", "insert"}
    /\ hidx[w] >= 1
    /\ hidx[w] <= Len(HistoryOf(w))

\* C9: a history entry whose (commit, path) was stored earlier in the same run
\* causes no Git::GetFileRevision call, no getContentId call and no change of
\* the snapshot set: the worker only moves on to the next entry.
C9_SeenEntryIsNoOp ==
    [][\A w \in Workers :
          (InEntry(w) /\ EntryPair(w) \in seenRun[w])
              => /\ nfetch'[w] = nfetch[w]
                 /\ nput'[w] = nput[w]
                 /\ files_'[w] = files_[w]
                 /\ wpc'[w] = "hist"]_vars

\* (c1, f1) was stored on master and met again on dev: the worker is past it
\* with three fetches made for three stored snapshots
C9_Witness ==
    \E w \in Workers :
        /\ task[w].url = "u1" /\ checkedOut[w] = "dev"
        /\ wpc[w] = "hist" /\ hidx[w] = 3
        /\ seenRun[w] = {<<"c2", "f1">>, <<"c1", "f1">>, <<"c3", "f1">>}
        /\ nfetch[w] = 3 /\ nput[w] = 3

\* the step that skips a history entry: the next entry is taken without a fetch
SkipStep(w) ==
    /\ AtEntry(w)
    /\ wpc'[w] = "hist" /\ hidx'[w] = hidx[w] + 1
    /\ nfetch'[w] = nfetch[w]

\* C10: a worker starts a project with an empty snapshot set, and skips an
\* entry only when its (commit, path) was stored during this project's run.
C10_SetPerProject ==
    [][\A w \in Workers :
          /\ (wpc[w] = "idle" /\ wpc'[w] = "download") => files_[w] = {}
          /\ SkipStep(w) => EntryPair(w) \in seenRun[w]]_vars

(* ---------------------------------------------------------------------- *)
(* Error handling of the crawl                                            *)
(* ---------------------------------------------------------------------- *)

\* the step on which Git::GetFileRevision reports the revision absent
AbsentStep(w) == wpc[w] = "fetch" /\ wpc'[w] = "hist"

\* C11: an entry whose revision is reported absent adds no snapshot, makes no
\* content-store call and is not marked seen; an entry reported absent earlier
\* and not stored since is fetched again when it is met.
C11_AbsentLeavesNoTrace ==
    [][\A w \in Workers :
          /\ AbsentStep(w)
                => /\ files_'[w] = files_[w]
                   /\ ~Found(files_'[w], fs[w])
                   /\ nput'[w] = nput[w]
                   /\ storeVars' = storeVars
                   /\ seenRun'[w] = seenRun[w]
          /\ (AtEntry(w) /\ EntryPair(w) \in log[w].absent /\ ~(EntryPair(w) \in seenRun[w]))
                => /\ wpc'[w] = "fetch"
                   /\ nfetch'[w] = nfetch[w]]_vars

\* (c1, f1) was reported absent on master and is being fetched again on dev
C11_Witness ==
    \E w \in Workers :
        /\ task[w].url = "u1" /\ checkedOut[w] = "dev"
        /\ wpc[w] = "fetch"
        /\ fs[w].commit = "c1" /\ fs[w].relPath = "f1"
        /\ <<"c1", "f1">> \in log[w].absent
        /\ nfetch[w] >= 2

\* the branches processFiles was called for during the run, in call order
VisitedNames(w) == {log[w].visited[i].name : i \in 1..Len(log[w].visited)}

\* processAllBranches has returned
Returned(w) == wpc[w] = "delete"

\* C12: when processAllBranches returns, the current branch was processed
\* first, every branch was either processed exactly once or reported as failed
\* to check out, and no branch reported as failed was processed.
C12_BranchCoverage ==
    \A w \in Workers :
        Returned(w)
            => /\ Len(log[w].visited) >= 1
               /\ log[w].visited[1].name = GetCurrentBranch(task[w].url)
               /\ \A i, j \in 1..Len(log[w].visited) :
                      log[w].visited[i].name = log[w].visited[j].name => i = j
               /\ VisitedNames(w) \cup log[w].failed
                      = GetBranches(task[w].url) \cup {GetCurrentBranch(task[w].url)}
               /\ VisitedNames(w) \cap log[w].failed = {}

\* three branches, master current: the checkout of dev failed, and rel was
\* processed after master
C12_Witness ==
    \E w \in Workers :
        /\ Returned(w)
        /\ task[w].url = "u3"
        /\ log[w].failed = {"dev"}
        /\ Len(log[w].visited) = 2
        /\ log[w].visited[2].name = "rel"

\* run(task) ends on this step, by return or by the exception of download
RunEnds(w) == wpc[w] # "idle" /\ wpc'[w] = "idle"

\* C13: when run(project) ends, after a full crawl or after a failed clone, the
\* workspace directory of the project does not exist.
C13_WorkspaceRemoved ==
    [][\A w \in Workers : RunEnds(w) => ~(task[w].id \in dirs')]_vars

(* ---------------------------------------------------------------------- *)
(* Seed intake                                                            *)
(* ---------------------------------------------------------------------- *)

\* the field is a base-10 integer: an optional sign and digits only
IsDecimal(f) ==
    LET first == IF Len(f) > 0 /\ f[1] = "-" THEN 2 ELSE 1 IN
        /\ Len(f) >= first
        /\ \A i \in first..Len(f) : IsDigit(f[i])

\* a line with a field count other than 1 or 2, or with a second field that
\* is not a base-10 integer
Malformed(l) == ~(Len(l) \in {1, 2}) \/ (Len(l) = 2 /\ ~IsDecimal(l[2]))

\* C14: every malformed line read so far scheduled no project, was reported
\* with its line number and did not end the intake; every one-field line read
\* so far scheduled an auto-id project.
C14_MalformedSkipped ==
    \A i \in 1..feed.line :
        /\ Malformed(feed.file[i])
              => /\ \A k \in 1..Len(feed.scheduled) : feed.scheduled[k].line # i
                 /\ \E e \in 1..Len(feed.errors) : feed.errors[e] = i
                 /\ ~(feed.crashed /\ feed.line = i)
        /\ Len(feed.file[i]) = 1
              => \E k \in 1..Len(feed.scheduled) :
                    feed.scheduled[k].line = i /\ feed.scheduled[k].kind = "auto"

(* ---------------------------------------------------------------------- *)
(* Content store and snapshots under failures                             *)
(* ---------------------------------------------------------------------- *)

\* C15: a failed write of a blob is not passed over: no getContentId call
\* completes for an id that the hash table holds and that has no blob on disk.
C15_WriteFailureNotIgnored ==
    \A p \in puts :
        (p.h \in DOMAIN fileHashes_ /\ fileHashes_[p.h] = p.id) => p.id \in DOMAIN raw

\* some file enumerated in a branch processed during the run was denied
DeniedSeen(w) ==
    \E i \in 1..Len(log[w].visited) :
        LET files == GetFileInfo(task[w].url, log[w].visited[i].on) IN
            \E k \in 1..Len(files) : files[k].class = "deny"

\* C16: after the crawl of a project its hasDeniedFiles flag is true exactly
\* when a file enumerated in a processed branch was classified as denied.
C16_DeniedFlagExact ==
    \A w \in Workers : Returned(w) => (hasDenied[w] <=> DeniedSeen(w))

\* the hash of the bytes of the revision a snapshot stands for
HashOfSnapshot(s) == Calculate(TextOf([hash |-> s.commit, filename |-> s.relPath]))

\* C17: every snapshot in a worker's set has a sequence id other than -1 and
\* the content id that the hash table maps the hash of its bytes to.
C17_SnapshotsRegistered ==
    \A w \in Workers : \A s \in files_[w] :
        /\ s.id # -1
        /\ HashOfSnapshot(s) \in DOMAIN fileHashes_
        /\ s.contentId = fileHashes_[HashOfSnapshot(s)]

(* ---------------------------------------------------------------------- *)
(* Clone failure and branch traversal                                     *)
(* ---------------------------------------------------------------------- *)

\* the step on which download is left with no working copy: Git::Clone failed
CloneFails(w) == wpc[w] = "download" /\ wpc'[w] # "download" /\ checkedOut'[w] = ""

\* the positions inside processAllBranches and processFiles
Crawling(w) == ~(wpc[w] \in {"idle", "download", "delete"})

\* C18: when Git::Clone fails, run ends on that step with no branch processed,
\* no history or blob fetched, no snapshot added and no content-store call;
\* a worker is never inside the crawl without a cloned working copy.
C18_CloneFailureTerminal ==
    /\ [](\A w \in Workers : Crawling(w) => checkedOut[w] # "")
    /\ [][\A w \in Workers :
             CloneFails(w)
                 => /\ wpc'[w] = "idle"
                    /\ log'[w].visited = <<>>
                    /\ files_'[w] = files_[w]
                    /\ nfetch'[w] = nfetch[w]
                    /\ nput'[w] = nput[w]
                    /\ storeVars' = storeVars]_vars

\* a task was taken, every worker is idle again and the last run of each has
\* processed no branch: the run ended in download
C18_Witness ==
    /\ Len(queue) < Len(feed.scheduled)
    /\ \A w \in Workers : wpc[w] = "idle" /\ log[w].visited = <<>>
    /\ \A w \in Workers : nfetch[w] = 0 /\ nput[w] = 0 /\ files_[w] = {}

\* the top of the inner loop of processAllBranches with a branch still pending
TakesBranch(w) == wpc[w] = "next" /\ branches[w] # {}

InProcessFiles(w) ==
    wpc[w] \in {"file", "hist", "fetch", "gc_find", "gc_size", "gc_insert", "gc_write",
                "gc_end", "insert"}

\* C20: every call processFiles(p, b) was made, and runs, while the working
\* copy is on branch b.
C20_ProcessedOnCheckedOut ==
    \A w \in Workers :
        /\ \A i \in 1..Len(log[w].visited) : log[w].visited[i].name = log[w].visited[i].on
        /\ InProcessFiles(w) => current[w] = checkedOut[w]

\* the checkout of rel failed, the next one succeeded, and dev is being
\* processed on the working copy of dev
C20_Witness ==
    \E w \in Workers :
        /\ InProcessFiles(w)
        /\ task[w].url = "u3"
        /\ "rel" \in log[w].failed
        /\ current[w] = "dev" /\ checkedOut[w] = "dev"
        /\ log[w].visited[Len(log[w].visited)].name = "dev"

====
